---- MODULE Spec2Model ----
(***************************************************************************)
(* Model of the CSV data model of phoebe-shelves-clt:                      *)
(*   utils/data_model.py      (CSVDataModel: ids, add/edit/delete, views)  *)
(*   csv_backend/manage_csv.py (the add/edit/delete workflows)             *)
(*   view.py                   (the filters of the two views)              *)
(* A state is the content of the eight CSV files between two commands,     *)
(* with the tables load_model reads from them and the tables the last      *)
(* command left in memory; every action is one run of a command (or one    *)
(* direct call of the data layer), complete or interrupted.                *)
(***************************************************************************)
EXTENDS Integers, Sequences, FiniteSets, TLC

VARIABLES
    model_data,   \* CSVDataModel.model_data as load_model returns it from
                  \* the files: table name -> rows
    csv_files,    \* the files of model_paths: table name -> lines
    in_memory,    \* CSVDataModel.model_data when the last command ended
    saves,        \* the to_csv calls started by the last command, in order
    prev_data,    \* the tables before the last command
    last,         \* the last command: what it was called on and returned
    before,       \* the command before the last one
    steps         \* number of commands run

vars ==
    <<model_data, csv_files, in_memory, saves, prev_data, last, before, steps>>

\* Number of commands explored from an initial dataset.
MaxSteps == 2

\* np.nan / NaT: the missing value of a numeric or date column.
NaN == -1

(***************************************************************************)
(* Schema                                                                  *)
(***************************************************************************)
csv_list ==
    {"authors", "books", "genres", "reading", "series",
     "books_authors", "books_genres", "books_series"}

\* The tables for which add_entry generates an id.
IdTables == {"books", "authors", "genres", "series", "reading"}

StringColumns ==
    {"title", "first_name", "middle_name", "last_name", "suffix",
     "name", "series_name"}

Columns(table) ==
    CASE table = "books" -> {"id", "title", "book_length", "rating"}
      [] table = "authors" ->
            {"id", "first_name", "middle_name", "last_name", "suffix"}
      [] table = "genres" -> {"id", "name"}
      [] table = "series" -> {"id", "series_name"}
      [] table = "reading" ->
            {"id", "book_id", "start_date", "finish_date", "rating"}
      [] table = "books_authors" -> {"book_id", "author_id"}
      [] table = "books_genres" -> {"book_id", "genre_id"}
      [] table = "books_series" -> {"book_id", "series_id", "series_order"}

\* A column missing from the appended dict is NaN; load_model turns the NaN
\* of the authors table into "" (the string columns of the model).
Missing(column) == IF column \in StringColumns THEN "" ELSE NaN

isnan(v) == v = NaN

Range(s) == {s[i] : i \in 1..Len(s)}

Min(S) == CHOOSE m \in S : \A k \in S : m <= k

Max(S) == CHOOSE m \in S : \A k \in S : m >= k

\* The values of one column of a table, as a set.
ColumnSet(md, table, column) == {md[table][i][column] : i \in 1..Len(md[table])}

(***************************************************************************)
(* Data layer: generate_id, add_entry, edit_entry, delete_entry            *)
(***************************************************************************)
RECURSIVE Probe(_, _)
Probe(id_set, new_id) ==
    IF new_id \in id_set THEN Probe(id_set, new_id + 1) ELSE new_id

\* A wrong allocator: the number of rows plus one.
generate_id_len(md, table) == Len(md[table]) + 1

\* A wrong allocator: one past the largest id (never recycles).
generate_id_max(md, table) ==
    LET id_set == ColumnSet(md, table, "id")
    IN  IF id_set = {} THEN 1 ELSE Max(id_set) + 1

generate_id(md, table) == Probe(ColumnSet(md, table, "id"), 1)

\* The row appended for a dict of entry details.
NewRow(md, table, entry_details) ==
    [c \in Columns(table) |->
        IF c = "id" /\ table \in IdTables THEN generate_id(md, table)
        ELSE IF c \in DOMAIN entry_details THEN entry_details[c]
        ELSE Missing(c)]

\* The lines DataFrame.to_csv writes for the rows of a table: a missing
\* value is an empty field <<>>, any other value v the field <<v>>.
to_csv_rows(rows, table) ==
    [i \in 1..Len(rows) |->
        [c \in Columns(table) |->
            IF rows[i][c] = Missing(c) THEN <<>> ELSE <<rows[i][c]>>]]

\* pd.read_csv of the lines of a file: an empty field is a missing value.
read_csv(lines, table) ==
    [i \in 1..Len(lines) |->
        [c \in Columns(table) |->
            IF lines[i][c] = <<>> THEN Missing(c) ELSE lines[i][c][1]]]

\* A CSVDataModel md is the eight tables of model_data with, under "csv",
\* the files of model_paths, under "saves" the to_csv calls made so far
\* and under "raised" whether an exception has ended the run.
load_model(files) ==
    [k \in csv_list \cup {"csv", "saves", "raised"} |->
        IF k = "csv" THEN files
        ELSE IF k = "saves" THEN <<>>
        ELSE IF k = "raised" THEN FALSE
        ELSE read_csv(files[k], k)]

\* The eight tables of a CSVDataModel.
Tables(md) == [t \in csv_list |-> md[t]]

\* self.model_data[table].to_csv(self.model_paths[table], index=False)
to_csv(md, table) ==
    LET lines == to_csv_rows(md[table], table)
    IN  [md EXCEPT !["csv"][table] = lines,
                   !["saves"] = Append(@, [table |-> table, rows |-> lines])]

\* A wrong add_entry: the row is appended but the file is not rewritten.
add_entry_unsaved(md, table, entry_details) ==
    IF md["raised"] THEN md
    ELSE [md EXCEPT ![table] = Append(@, NewRow(md, table, entry_details))]

\* A wrong add_entry: a rating outside 1..5 is refused with an error.
add_entry_checked(md, table, entry_details) ==
    IF md["raised"] THEN md
    ELSE IF /\ "rating" \in DOMAIN entry_details
            /\ entry_details["rating"] \notin 1..5
    THEN [md EXCEPT !["raised"] = TRUE]
    ELSE to_csv([md EXCEPT ![table] =
                    Append(@, NewRow(md, table, entry_details))], table)

add_entry(md, table, entry_details) ==
    IF md["raised"] THEN md
    ELSE to_csv([md EXCEPT ![table] =
                    Append(@, NewRow(md, table, entry_details))], table)

\* The id add_entry returns for an id table.
add_entry_id(md, table) == generate_id(md, table)

Matches(md, table, id_column, id_value) ==
    {i \in 1..Len(md[table]) : md[table][i][id_column] = id_value}

\* .index[0] of an empty selection raises IndexError before any change.
edit_raises(md, table, id_column, id_value) ==
    Matches(md, table, id_column, id_value) = {}

\* A wrong edit_entry: without a match nothing is raised and the file is
\* rewritten.
edit_entry_silent(md, table, id_column, id_value, new_column, new_val) ==
    IF md["raised"] THEN md
    ELSE IF edit_raises(md, table, id_column, id_value)
    THEN to_csv(md, table)
    ELSE LET pos == Min(Matches(md, table, id_column, id_value))
         IN  to_csv([md EXCEPT ![table][pos][new_column] = new_val], table)

\* A wrong edit_entry: every matching row is overwritten.
edit_entry_all(md, table, id_column, id_value, new_column, new_val) ==
    IF md["raised"] THEN md
    ELSE IF edit_raises(md, table, id_column, id_value)
    THEN [md EXCEPT !["raised"] = TRUE]
    ELSE to_csv([md EXCEPT ![table] =
                    [i \in 1..Len(@) |->
                        IF @[i][id_column] = id_value
                        THEN [@[i] EXCEPT ![new_column] = new_val]
                        ELSE @[i]]], table)

edit_entry(md, table, id_column, id_value, new_column, new_val) ==
    IF md["raised"] THEN md
    ELSE IF edit_raises(md, table, id_column, id_value)
    THEN [md EXCEPT !["raised"] = TRUE]
    ELSE LET pos == Min(Matches(md, table, id_column, id_value))
         IN  to_csv([md EXCEPT ![table][pos][new_column] = new_val], table)

\* A wrong delete_entry: without a match an error is raised.
delete_entry_strict(md, table, id_column, id_value) ==
    IF md["raised"] THEN md
    ELSE IF Matches(md, table, id_column, id_value) = {}
    THEN [md EXCEPT !["raised"] = TRUE]
    ELSE to_csv([md EXCEPT ![table] =
                    SelectSeq(@, LAMBDA r : r[id_column] # id_value)], table)

delete_entry(md, table, id_column, id_value) ==
    IF md["raised"] THEN md
    ELSE to_csv([md EXCEPT ![table] =
                    SelectSeq(@, LAMBDA r : r[id_column] # id_value)], table)

(***************************************************************************)
(* Merging and formatting                                                  *)
(***************************************************************************)
merge_names(row) ==
    LET n1 == IF row.first_name # "" THEN row.first_name \o " " ELSE ""
        n2 == IF row.middle_name # "" THEN n1 \o row.middle_name \o " " ELSE n1
        n3 == IF row.last_name # "" THEN n2 \o row.last_name ELSE n2
    IN  IF row.suffix # "" THEN n3 \o ", " \o row.suffix ELSE n3

\* ", ".join(names)
RECURSIVE Join(_)
Join(names) ==
    IF Len(names) = 0 THEN ""
    ELSE IF Len(names) = 1 THEN names[1]
    ELSE names[1] \o ", " \o Join(Tail(names))

\* The authors table as (id, Author); selection = "" stands for None.
create_authors_formatted(md, selection) ==
    LET rows == IF selection = "" THEN md["authors"]
                ELSE SelectSeq(md["authors"],
                               LAMBDA r : r.last_name = selection)
    IN  [i \in 1..Len(rows) |->
            [id |-> rows[i].id, Author |-> merge_names(rows[i])]]

\* Inner merge of left with right on left[left_on] = right[right_on]: the
\* rows of left in order, each paired with its matching rows of right in order.
RECURSIVE InnerMerge(_, _, _, _)
InnerMerge(left, right, left_on, right_on) ==
    IF Len(left) = 0 THEN <<>>
    ELSE LET l == left[1]
             hits == SelectSeq(right, LAMBDA r : r[right_on] = l[left_on])
         IN  [i \in 1..Len(hits) |-> [l |-> l, r |-> hits[i]]]
             \o InnerMerge(Tail(left), right, left_on, right_on)

\* book_id -> (Author(s), author_id set), for the books having at least one
\* books_authors row whose author exists.
create_book_authors_merge(md) ==
    LET groupby(temp) ==
            LET keys == {temp[i].l.book_id : i \in 1..Len(temp)}
                group(b) == SelectSeq(temp, LAMBDA p : p.l.book_id = b)
            IN  [b \in keys |->
                    [Authors |-> Join([i \in 1..Len(group(b)) |->
                                          group(b)[i].r.Author]),
                     author_id |-> {group(b)[i].l.author_id :
                                       i \in 1..Len(group(b))}]]
    IN  CHOOSE merged \in
            {groupby(temp) :
                temp \in {InnerMerge(md["books_authors"],
                                     create_authors_formatted(md, ""),
                                     "author_id", "id")}} : TRUE

create_books_genres_merge(md) ==
    LET groupby(temp) ==
            LET keys == {temp[i].l.book_id : i \in 1..Len(temp)}
                group(b) == SelectSeq(temp, LAMBDA p : p.l.book_id = b)
            IN  [b \in keys |->
                    [Genre |-> Join([i \in 1..Len(group(b)) |->
                                        group(b)[i].r.name]),
                     genre_id |-> {group(b)[i].l.genre_id :
                                      i \in 1..Len(group(b))}]]
    IN  CHOOSE merged \in
            {groupby(temp) :
                temp \in {InnerMerge(md["books_genres"], md["genres"],
                                     "genre_id", "id")}} : TRUE

\* A float is kept exactly, as the fraction num/den; 0/0 is NaN.
NaNFloat == [num |-> 0, den |-> 0]

Float(v) == IF isnan(v) THEN NaNFloat ELSE [num |-> v, den |-> 1]

FloatIsNaN(f) == f.den = 0

FloatEq(f, g) ==
    IF FloatIsNaN(f) \/ FloatIsNaN(g) THEN FloatIsNaN(f) /\ FloatIsNaN(g)
    ELSE f.num * g.den = g.num * f.den

RECURSIVE SumSeq(_)
SumSeq(s) == IF Len(s) = 0 THEN 0 ELSE s[1] + SumSeq(Tail(s))

\* Series.mean(): the mean of the non-null values, NaN when there is none.
Mean(values) ==
    LET present == SelectSeq(values, LAMBDA v : ~isnan(v))
    IN  IF Len(present) = 0 THEN NaNFloat
        ELSE [num |-> SumSeq(present), den |-> Len(present)]

\* A wrong aggregate: the null ratings count as 0 in the mean.
create_books_reading_agg_zero(md) ==
    LET keys == ColumnSet(md, "reading", "book_id")
        group(b) == SelectSeq(md["reading"], LAMBDA r : r.book_id = b)
    IN  [b \in keys |->
            [avg_rating |->
                [num |-> SumSeq([i \in 1..Len(group(b)) |->
                             IF isnan(group(b)[i].rating) THEN 0
                             ELSE group(b)[i].rating]),
                 den |-> Len(group(b))],
             times_read |->
                Len(SelectSeq(group(b), LAMBDA r : ~isnan(r.finish_date)))]]

\* A wrong aggregate: times_read counts every reading row of the book.
create_books_reading_agg_rows(md) ==
    LET keys == ColumnSet(md, "reading", "book_id")
        group(b) == SelectSeq(md["reading"], LAMBDA r : r.book_id = b)
    IN  [b \in keys |->
            [avg_rating |->
                Mean([i \in 1..Len(group(b)) |-> group(b)[i].rating]),
             times_read |-> Len(group(b))]]

\* book_id -> (avg_rating, times_read) for the books with a reading row.
create_books_reading_agg(md) ==
    LET keys == ColumnSet(md, "reading", "book_id")
        group(b) == SelectSeq(md["reading"], LAMBDA r : r.book_id = b)
    IN  [b \in keys |->
            [avg_rating |->
                Mean([i \in 1..Len(group(b)) |-> group(b)[i].rating]),
             times_read |->
                Len(SelectSeq(group(b), LAMBDA r : ~isnan(r.finish_date)))]]

(***************************************************************************)
(* Main views (no filter)                                                  *)
(***************************************************************************)
\* The books that survive the two inner merges of generate_main_books.
MainBooksKeys(md) ==
    ColumnSet(md, "books", "id")
        \cap DOMAIN create_book_authors_merge(md)
        \cap DOMAIN create_books_genres_merge(md)

generate_main_books(md) ==
    LET ba == create_book_authors_merge(md)
        bg == create_books_genres_merge(md)
        agg == create_books_reading_agg(md)
        kept == SelectSeq(md["books"], LAMBDA b : b.id \in MainBooksKeys(md))
        avg(b) == IF b.id \in DOMAIN agg THEN agg[b.id].avg_rating ELSE NaNFloat
    IN  [i \in 1..Len(kept) |->
            [ID |-> kept[i].id,
             Title |-> kept[i].title,
             Authors |-> ba[kept[i].id].Authors,
             Rating |-> IF FloatIsNaN(avg(kept[i])) THEN Float(kept[i].rating)
                        ELSE avg(kept[i]),
             Pages |-> kept[i].book_length,
             TimesRead |-> IF kept[i].id \in DOMAIN agg
                           THEN agg[kept[i].id].times_read ELSE 0,
             Genres |-> bg[kept[i].id].Genre]]

\* sort_values("Finish"): ascending, the rows without a finish date last
\* (a stable order for the few rows of a view).
RECURSIVE SortFinish(_)
SortFinish(rows) ==
    LET dated == SelectSeq(rows, LAMBDA r : ~isnan(r.Finish))
        nat == SelectSeq(rows, LAMBDA r : isnan(r.Finish))
    IN  IF Len(dated) = 0 THEN nat
        ELSE LET m == Min({dated[i].Finish : i \in 1..Len(dated)})
             IN  SelectSeq(dated, LAMBDA r : r.Finish = m)
                 \o SortFinish(SelectSeq(rows, LAMBDA r : r.Finish # m))

\* The reading rows that survive the two inner merges of
\* generate_main_reading, in the order of the reading table.
MainReadingRows(md) ==
    SelectSeq(md["reading"],
              LAMBDA r : /\ r.book_id \in DOMAIN create_book_authors_merge(md)
                         /\ r.book_id \in ColumnSet(md, "books", "id"))

generate_main_reading(md) ==
    LET ba == create_book_authors_merge(md)
        kept == MainReadingRows(md)
        title(b) == (CHOOSE r \in Range(md["books"]) : r.id = b).title
    IN  SortFinish(
          [i \in 1..Len(kept) |->
            [ID |-> kept[i].id,
             Title |-> title(kept[i].book_id),
             Authors |-> ba[kept[i].book_id].Authors,
             Start |-> kept[i].start_date,
             Finish |-> kept[i].finish_date,
             Rating |-> kept[i].rating,
             ReadTime |-> IF isnan(kept[i].start_date)
                             \/ isnan(kept[i].finish_date) THEN NaN
                          ELSE kept[i].finish_date - kept[i].start_date]])

(***************************************************************************)
(* Filters.  A filter is the record of the arguments of generate_main_*:   *)
(* filter (the column, "None" for no filter), id_list, comp_type and       *)
(* thresholds.                                                             *)
(***************************************************************************)
\* A wrong test: the ids of the row are exactly the chosen ids.
check_all_in_set_equal(start_list, target_set) ==
    Range(start_list) = target_set

\* True as soon as one element of start_list is in target_set.
check_all_in_set(start_list, target_set) ==
    \E i \in 1..Len(start_list) : start_list[i] \in target_set

\* f <= g on floats; a comparison with NaN is False.
FloatLeq(f, g) ==
    /\ ~FloatIsNaN(f)
    /\ ~FloatIsNaN(g)
    /\ f.num * g.den <= g.num * f.den

\* The field of a view row that holds a column of the view.
ViewColumn(column) ==
    CASE column = "Times Read" -> "TimesRead"
      [] column = "Read Time" -> "ReadTime"
      [] OTHER -> column

\* data[column] as floats: Rating of the books view is a float already.
ViewValue(row, column) ==
    IF column = "Rating" /\ "TimesRead" \in DOMAIN row THEN row[column]
    ELSE Float(row[ViewColumn(column)])

\* A wrong filter: the range excludes its two ends.
numeric_filter_open(data, column, comp_type, thresholds) ==
    [i \in 1..Len(data) |->
        LET v == ViewValue(data[i], column)
        IN  CASE comp_type = 1 -> FloatLeq(v, Float(thresholds[1]))
              [] comp_type = 2 -> FloatLeq(Float(thresholds[1]), v)
              [] comp_type = 3 ->
                    /\ FloatLeq(Float(thresholds[1]), v)
                    /\ FloatLeq(v, Float(thresholds[2]))
                    /\ ~FloatEq(v, Float(thresholds[1]))
                    /\ ~FloatEq(v, Float(thresholds[2]))
              [] OTHER -> FloatIsNaN(v)]

\* The Boolean filter of a numeric column.
numeric_filter(data, column, comp_type, thresholds) ==
    [i \in 1..Len(data) |->
        LET v == ViewValue(data[i], column)
        IN  CASE comp_type = 1 -> FloatLeq(v, Float(thresholds[1]))
              [] comp_type = 2 -> FloatLeq(Float(thresholds[1]), v)
              [] comp_type = 3 ->
                    /\ FloatLeq(Float(thresholds[1]), v)
                    /\ FloatLeq(v, Float(thresholds[2]))
              [] OTHER -> FloatIsNaN(v)]

\* Dates are day numbers of a calendar whose years have DaysPerYear days.
DaysPerYear == 4

\* .dt.year
Year(d) == d \div DaysPerYear

\* The Boolean filter of a date column; a comparison with NaT is False.
date_filter(data, column, comp_type, thresholds) ==
    [i \in 1..Len(data) |->
        LET v == data[i][column]
        IN  CASE comp_type = 1 -> ~isnan(v) /\ v >= thresholds[1]
              [] comp_type = 2 -> ~isnan(v) /\ v <= thresholds[1]
              [] comp_type = 3 ->
                    ~isnan(v) /\ v >= thresholds[1] /\ v <= thresholds[2]
              [] comp_type = 4 -> ~isnan(v) /\ Year(v) = Year(thresholds[1])
              [] OTHER -> isnan(v)]

\* data[data_filter]: the rows whose entry of the filter is True, in order.
Keep(data, data_filter) ==
    LET idx == {i \in 1..Len(data) : data_filter[i]}
        nth(k) == CHOOSE i \in idx : Cardinality({j \in idx : j <= i}) = k
    IN  [k \in 1..Cardinality(idx) |-> data[nth(k)]]

\* generate_main_books(filter, **kwargs): the filter is applied to the
\* merged rows, which still hold the author_id and genre_id sets.
generate_main_books_filtered(md, kwargs) ==
    LET main_books == generate_main_books(md)
        ba == create_book_authors_merge(md)
        bg == create_books_genres_merge(md)
        data_filter ==
            CASE kwargs.filter = "None" -> [i \in 1..Len(main_books) |-> TRUE]
              [] kwargs.filter = "Author" ->
                    [i \in 1..Len(main_books) |->
                        check_all_in_set(kwargs.id_list,
                                         ba[main_books[i].ID].author_id)]
              [] kwargs.filter = "Genre" ->
                    [i \in 1..Len(main_books) |->
                        check_all_in_set(kwargs.id_list,
                                         bg[main_books[i].ID].genre_id)]
              [] kwargs.filter = "Title" ->
                    [i \in 1..Len(main_books) |->
                        main_books[i].ID \in Range(kwargs.id_list)]
              [] OTHER ->
                    numeric_filter(main_books, kwargs.filter,
                                   kwargs.comp_type, kwargs.thresholds)
    IN  Keep(main_books, data_filter)

\* The merged rows of generate_main_reading before the filter and the sort,
\* in the order of the reading table.
MainReadingMerged(md) ==
    LET ba == create_book_authors_merge(md)
        kept == MainReadingRows(md)
        title(b) == (CHOOSE r \in Range(md["books"]) : r.id = b).title
    IN  [i \in 1..Len(kept) |->
            [ID |-> kept[i].id,
             book_id |-> kept[i].book_id,
             Title |-> title(kept[i].book_id),
             Authors |-> ba[kept[i].book_id].Authors,
             Start |-> kept[i].start_date,
             Finish |-> kept[i].finish_date,
             Rating |-> kept[i].rating,
             ReadTime |-> IF isnan(kept[i].start_date)
                             \/ isnan(kept[i].finish_date) THEN NaN
                          ELSE kept[i].finish_date - kept[i].start_date]]

\* generate_main_reading(filter, **kwargs): filter, reindex (book_id and
\* author_id are dropped), then sort_values("Finish").
generate_main_reading_filtered(md, kwargs) ==
    LET main_reading == MainReadingMerged(md)
        ba == create_book_authors_merge(md)
        data_filter ==
            CASE kwargs.filter = "None" ->
                    [i \in 1..Len(main_reading) |-> TRUE]
              [] kwargs.filter = "Author" ->
                    [i \in 1..Len(main_reading) |->
                        check_all_in_set(kwargs.id_list,
                                         ba[main_reading[i].book_id].author_id)]
              [] kwargs.filter = "Title" ->
                    [i \in 1..Len(main_reading) |->
                        main_reading[i].book_id \in Range(kwargs.id_list)]
              [] kwargs.filter \in {"Start", "Finish"} ->
                    date_filter(main_reading, kwargs.filter,
                                kwargs.comp_type, kwargs.thresholds)
              [] OTHER ->
                    numeric_filter(main_reading, kwargs.filter,
                                   kwargs.comp_type, kwargs.thresholds)
        filtered == Keep(main_reading, data_filter)
    IN  SortFinish([i \in 1..Len(filtered) |->
            [ID |-> filtered[i].ID,
             Title |-> filtered[i].Title,
             Authors |-> filtered[i].Authors,
             Start |-> filtered[i].Start,
             Finish |-> filtered[i].Finish,
             Rating |-> filtered[i].Rating,
             ReadTime |-> filtered[i].ReadTime]])

\* A wrong view: the filter is applied to the books table itself.
view_books_inplace(md, kwargs) ==
    LET view == generate_main_books_filtered(md, kwargs)
    IN  [md |-> [md EXCEPT !["books"] =
                    SelectSeq(@, LAMBDA b :
                        \E i \in 1..Len(view) : view[i].ID = b.id)],
         view |-> view]

\* A call of generate_main_books: the view is built from copies and merges
\* of the tables, the CSVDataModel is left as it was and nothing is saved.
view_books(md, kwargs) ==
    [md |-> md, view |-> generate_main_books_filtered(md, kwargs)]

\* A call of generate_main_reading.
view_reading(md, kwargs) ==
    [md |-> md, view |-> generate_main_reading_filtered(md, kwargs)]

(***************************************************************************)
(* Lookups                                                                 *)
(***************************************************************************)
\* dict(zip(keys, ids)): a key met twice keeps the id of its last row.
ZipDict(rows, key, val) ==
    [k \in {rows[i][key] : i \in 1..Len(rows)} |->
        rows[Max({i \in 1..Len(rows) : rows[i][key] = k})][val]]

get_authors_dict(md, selection) ==
    ZipDict(create_authors_formatted(md, selection), "Author", "id")

get_books_dict(md, selection) ==
    LET books_dict == ZipDict(md["books"], "title", "id")
    IN  IF selection = "" THEN books_dict
        ELSE [t \in DOMAIN books_dict \cap {selection} |-> books_dict[t]]

get_genres_dict(md, selection) ==
    LET genres_dict == ZipDict(md["genres"], "name", "id")
    IN  IF selection = "" THEN genres_dict
        ELSE [g \in DOMAIN genres_dict \cap {selection} |-> genres_dict[g]]

get_reading_entries(md, selection) ==
    LET entries == SelectSeq(md["reading"], LAMBDA r : r.book_id = selection)
    IN  [i \in 1..Len(entries) |-> entries[i].id]

\* The prompts of the manage module: the typed text and the matching lookup.
prompt_for_author(md, last_name) == get_authors_dict(md, last_name)

prompt_for_title(md, title) == get_books_dict(md, title)

prompt_for_genre(md, genre_name) == get_genres_dict(md, genre_name)

(***************************************************************************)
(* Workflows of manage_csv.py, as functions of the tables.  A workflow     *)
(* that returns an id yields the record [md, id].                          *)
(***************************************************************************)
\* dict(zip(cols, vals)): the pairs up to the shorter list.
ZipEntry(cols, vals) ==
    LET n == IF Len(cols) < Len(vals) THEN Len(cols) ELSE Len(vals)
    IN  [c \in {cols[i] : i \in 1..n} |->
            vals[Max({i \in 1..n : cols[i] = c})]]

\* name is a record of the four typed components.
add_author(md, name) ==
    LET cols1 == <<"last_name">>
        vals1 == <<name.last_name>>
        cols2 == IF name.first_name # "" THEN Append(cols1, "first_name")
                 ELSE cols1
        vals2 == IF name.first_name # "" THEN Append(vals1, name.first_name)
                 ELSE vals1
        cols3 == IF name.middle_name # "" THEN Append(cols2, "middle_name")
                 ELSE cols2
        vals3 == IF name.middle_name # "" THEN Append(vals2, name.middle_name)
                 ELSE vals2
        vals4 == IF name.suffix # "" THEN Append(vals3, name.suffix) ELSE vals3
    IN  [md |-> add_entry(md, "authors", ZipEntry(cols3, vals4)),
         id |-> add_entry_id(md, "authors")]

\* author_select is a key of the lookup or "New Author".
select_author(md, name, author_select) ==
    LET author_results == prompt_for_author(md, name.last_name)
    IN  IF DOMAIN author_results = {} \/ author_select = "New Author"
        THEN add_author(md, name)
        ELSE [md |-> md, id |-> author_results[author_select]]

AuthorOptions(md, name) ==
    DOMAIN prompt_for_author(md, name.last_name) \cup {"New Author"}

add_genre(md, genre_name) ==
    [md |-> add_entry(md, "genres", [name |-> genre_name]),
     id |-> add_entry_id(md, "genres")]

select_genre(md, genre_select, new_genre) ==
    LET genres_dict == get_genres_dict(md, "")
    IN  IF genre_select = "New Genre" THEN add_genre(md, new_genre)
        ELSE [md |-> md, id |-> genres_dict[genre_select]]

GenreOptions(md) == DOMAIN get_genres_dict(md, "") \cup {"New Genre"}

\* A wrong add_book: the books row is created before the author and the
\* genre are resolved.
add_book_row_first(md, title, in) ==
    LET new_entry == IF isnan(in.rating)
                     THEN [title |-> title, book_length |-> in.pages]
                     ELSE [title |-> title, book_length |-> in.pages,
                           rating |-> in.rating]
        book_id == add_entry_id(md, "books")
        m1 == add_entry(md, "books", new_entry)
        a == select_author(m1, in.name, in.author_select)
        g == select_genre(a.md, in.genre_select, in.new_genre)
        m2 == add_entry(g.md, "books_authors",
                        [book_id |-> book_id, author_id |-> a.id])
        m3 == add_entry(m2, "books_genres",
                        [book_id |-> book_id, genre_id |-> g.id])
    IN  [md |-> m3, id |-> book_id]

\* in is the record of everything typed during add_book.
add_book(md, title, in) ==
    LET a == select_author(md, in.name, in.author_select)
        g == select_genre(a.md, in.genre_select, in.new_genre)
        new_entry == IF isnan(in.rating)
                     THEN [title |-> title, book_length |-> in.pages]
                     ELSE [title |-> title, book_length |-> in.pages,
                           rating |-> in.rating]
        book_id == add_entry_id(g.md, "books")
        m1 == add_entry(g.md, "books", new_entry)
        m2 == add_entry(m1, "books_authors",
                        [book_id |-> book_id, author_id |-> a.id])
        m3 == add_entry(m2, "books_genres",
                        [book_id |-> book_id, genre_id |-> g.id])
    IN  [md |-> m3, id |-> book_id]

\* A wrong delete_book: the books row is deleted after the rows that
\* refer to it.
delete_book_row_last(md, book_id) ==
    LET m1 == delete_entry(md, "books_authors", "book_id", book_id)
        m2 == delete_entry(m1, "books_genres", "book_id", book_id)
        m3 == delete_entry(m2, "reading", "book_id", book_id)
    IN  delete_entry(m3, "books", "id", book_id)

delete_book(md, book_id) ==
    LET m1 == delete_entry(md, "books", "id", book_id)
        m2 == delete_entry(m1, "books_authors", "book_id", book_id)
        m3 == delete_entry(m2, "books_genres", "book_id", book_id)
    IN  delete_entry(m3, "reading", "book_id", book_id)

\* A wrong cascade: the books_authors rows of the author are kept.
delete_author_no_cascade(md, author_id) ==
    delete_entry(md, "authors", "id", author_id)

delete_author(md, author_id) ==
    LET m1 == delete_entry(md, "authors", "id", author_id)
    IN  delete_entry(m1, "books_authors", "author_id", author_id)

delete_genre(md, genre_id) ==
    LET m1 == delete_entry(md, "genres", "id", genre_id)
    IN  delete_entry(m1, "books_genres", "genre_id", genre_id)

edit_author(md, author_id, column, new_value) ==
    edit_entry(md, "authors", "id", author_id, column, new_value)

edit_genre(md, name, genre_id) ==
    edit_entry(md, "genres", "id", genre_id, "name", name)

\* in: col_select and the values typed for it.
edit_book(md, book_id, in) ==
    CASE in.col_select = "Title" ->
            edit_entry(md, "books", "id", book_id, "title", in.title)
      [] in.col_select = "Author" ->
            LET a == select_author(md, in.name, in.author_select)
            IN  edit_entry(a.md, "books_authors", "book_id", book_id,
                           "author_id", a.id)
      [] in.col_select = "Pages" ->
            edit_entry(md, "books", "id", book_id, "book_length", in.pages)
      [] in.col_select = "Rating" ->
            edit_entry(md, "books", "id", book_id, "rating", in.rating)
      [] in.col_select = "Genre" ->
            LET g == select_genre(md, in.genre_select, in.new_genre)
            IN  edit_entry(g.md, "books_genres", "book_id", book_id,
                           "genre_id", g.id)

\* title_select is the typed title (an existing book) or "New Book".
select_book(md, title, title_select, in) ==
    LET title_results == prompt_for_title(md, title)
    IN  IF DOMAIN title_results = {} \/ title_select = "New Book"
        THEN add_book(md, title, in)
        ELSE [md |-> md, id |-> title_results[title_select]]

\* prompt_for_rating gives NaN for an empty answer and NaN # "", so the
\* rating key is always present; a date left empty is NaT, also # "".
add_reading_entry(md, book_id, start, finish, rating) ==
    [md |-> add_entry(md, "reading",
                      [book_id |-> book_id, start_date |-> start,
                       finish_date |-> finish, rating |-> rating]),
     id |-> add_entry_id(md, "reading")]

delete_reading_entry(md, edit_id) ==
    delete_entry(md, "reading", "id", edit_id)

\* in: prop_select and the values typed for it.
edit_reading_entry(md, edit_id, in) ==
    CASE in.prop_select = "Title" ->
            LET b == select_book(md, in.title, in.title_select, in.book)
            IN  edit_entry(b.md, "reading", "id", edit_id, "book_id", b.id)
      [] in.prop_select = "Start" ->
            edit_entry(md, "reading", "id", edit_id, "start_date", in.date)
      [] in.prop_select = "Finish" ->
            edit_entry(md, "reading", "id", edit_id, "finish_date", in.date)
      [] in.prop_select = "Rating" ->
            edit_entry(md, "reading", "id", edit_id, "rating", in.rating)

(***************************************************************************)
(* Inputs                                                                  *)
(***************************************************************************)
Titles == {"Dune", "Emma"}

AuthorNames ==
    {[first_name |-> "Frank", middle_name |-> "", last_name |-> "Herbert",
      suffix |-> ""],
     [first_name |-> "", middle_name |-> "", last_name |-> "Austen",
      suffix |-> "Jr"]}

GenreNames == {"SciFi", "Novel"}

SeriesNames == {"Saga"}

PageLengths == {100}

\* prompt_for_rating: an integer of 1..5, or NaN for an empty answer.
RatingInputs == {NaN, 4}

\* Dates as day numbers; NaN is NaT.
DateInputs == {NaN, 5}

(***************************************************************************)
(* Initial datasets: the CSV files read by load_model                      *)
(***************************************************************************)
BookRow(id, title, book_length, rating) ==
    [id |-> id, title |-> title, book_length |-> book_length,
     rating |-> rating]

AuthorRow(id, first_name, last_name) ==
    [id |-> id, first_name |-> first_name, middle_name |-> "",
     last_name |-> last_name, suffix |-> ""]

ReadingRow(id, book_id, start_date, finish_date, rating) ==
    [id |-> id, book_id |-> book_id, start_date |-> start_date,
     finish_date |-> finish_date, rating |-> rating]

EmptyModel == [t \in csv_list |-> <<>>]

\* One book with its author and genre, read twice; one series.
DuneModel ==
    [EmptyModel EXCEPT
        !["books"] = <<BookRow(1, "Dune", 412, 4)>>,
        !["authors"] = <<AuthorRow(1, "Frank", "Herbert")>>,
        !["genres"] = <<[id |-> 1, name |-> "SciFi"]>>,
        !["series"] = <<[id |-> 1, series_name |-> "Saga"]>>,
        !["reading"] = <<ReadingRow(1, 1, 2, 5, 3), ReadingRow(2, 1, 6, 9, 4)>>,
        !["books_authors"] = <<[book_id |-> 1, author_id |-> 1]>>,
        !["books_genres"] = <<[book_id |-> 1, genre_id |-> 1]>>]

\* Ids with gaps left by earlier deletions; readings without a rating.
GapModel ==
    [EmptyModel EXCEPT
        !["books"] = <<BookRow(1, "Dune", 412, 4), BookRow(3, "Emma", 300, NaN)>>,
        !["authors"] = <<AuthorRow(2, "Frank", "Herbert")>>,
        !["genres"] = <<[id |-> 2, name |-> "Novel"]>>,
        !["reading"] = <<ReadingRow(2, 1, NaN, NaN, NaN),
                         ReadingRow(3, 3, 2, NaN, NaN)>>,
        !["books_authors"] = <<[book_id |-> 1, author_id |-> 2],
                               [book_id |-> 3, author_id |-> 2]>>,
        !["books_genres"] = <<[book_id |-> 1, genre_id |-> 2],
                              [book_id |-> 3, genre_id |-> 2]>>]

\* A book with two authors and two genres.
SharedModel ==
    [EmptyModel EXCEPT
        !["books"] = <<BookRow(2, "Emma", 300, 3)>>,
        !["authors"] = <<AuthorRow(1, "Jane", "Austen"),
                         AuthorRow(2, "", "Herbert")>>,
        !["genres"] = <<[id |-> 1, name |-> "Novel"],
                        [id |-> 2, name |-> "SciFi"]>>,
        !["reading"] = <<ReadingRow(1, 2, 2, 5, 4)>>,
        !["books_authors"] = <<[book_id |-> 2, author_id |-> 1],
                               [book_id |-> 2, author_id |-> 2]>>,
        !["books_genres"] = <<[book_id |-> 2, genre_id |-> 1],
                              [book_id |-> 2, genre_id |-> 2]>>]

InitialModels == {EmptyModel, DuneModel, GapModel, SharedModel}

\* What last holds: the command, the table and the row it was called on
\* (for a direct add_entry or edit_entry, the arguments of the call), the
\* id it returned, whether it ended by an exception, and, for a run
\* that was interrupted, the number of saves it had completed and the
\* lines of the next save it had written (NaN when that save had not begun).
Ran(op, table, arg, ret, raised, interrupted, saved, written) ==
    [op |-> op, table |-> table, arg |-> arg, ret |-> ret, raised |-> raised,
     interrupted |-> interrupted, saved |-> saved, written |-> written]

NoOp == Ran("load", "", 0, 0, FALSE, FALSE, 0, NaN)

Init ==
    /\ \E m \in InitialModels :
          csv_files = [t \in csv_list |-> to_csv_rows(m[t], t)]
    /\ model_data = Tables(load_model(csv_files))
    /\ in_memory = model_data
    /\ saves = <<>>
    /\ prev_data = model_data
    /\ last = NoOp
    /\ before = NoOp
    /\ steps = 0

(***************************************************************************)
(* Commands.  Each action is one run of manage_csv.main (load, workflow,   *)
(* the saves inside it) or one direct call of the data layer.              *)
(***************************************************************************)
\* The CSVDataModel a command starts with, CSVDataModel(data_directory):
\* model_data is load_model of the files.
Session ==
    [authors |-> model_data["authors"], books |-> model_data["books"],
     genres |-> model_data["genres"], reading |-> model_data["reading"],
     series |-> model_data["series"],
     books_authors |-> model_data["books_authors"],
     books_genres |-> model_data["books_genres"],
     books_series |-> model_data["books_series"],
     csv |-> csv_files, saves |-> <<>>, raised |-> FALSE]

\* A run that ends with the CSVDataModel md.
Command(op, table, arg, ret, md) ==
    /\ steps < MaxSteps
    /\ csv_files' = md["csv"]
    /\ model_data' = Tables(load_model(md["csv"]))
    /\ in_memory' = Tables(md)
    /\ saves' = md["saves"]
    /\ prev_data' = model_data
    /\ last' = Ran(op, table, arg, ret, md["raised"], FALSE,
                   Len(md["saves"]), NaN)
    /\ before' = last
    /\ steps' = steps + 1

\* What is typed for a new book: the author's name, the rating, and the
\* name of the genre when a new genre is created.
TypedBooks ==
    {[name |-> CHOOSE n \in AuthorNames : n.last_name = "Herbert",
      rating |-> 4, new_genre |-> "SciFi"],
     [name |-> CHOOSE n \in AuthorNames : n.last_name = "Austen",
      rating |-> NaN, new_genre |-> "Novel"]}

\* What is typed and selected during add_book, against the tables md: a new
\* author and a new genre, or an author and a genre of the lists shown.
BookInputs(md) ==
    UNION {
      {[name |-> tb.name, author_select |-> "New Author", pages |-> p,
        rating |-> tb.rating, genre_select |-> "New Genre",
        new_genre |-> tb.new_genre] : p \in PageLengths}
      \cup
      {[name |-> tb.name, author_select |-> a, pages |-> p,
        rating |-> tb.rating, genre_select |-> g, new_genre |-> ""] :
          a \in DOMAIN prompt_for_author(md, tb.name.last_name),
          p \in PageLengths, g \in DOMAIN get_genres_dict(md, "")} :
      tb \in TypedBooks}

\* manage_authors_table, mode add.
ManageAuthorsAdd ==
    \E name \in AuthorNames, in_list \in BOOLEAN :
        /\ DOMAIN prompt_for_author(Session, name.last_name) = {}
              \/ ~in_list
        /\ Command("add_author", "authors", 0,
                   add_author(Session, name).id,
                   add_author(Session, name).md)

\* The property chosen in edit_author and its new value.
EditAuthorInputs == {<<"first_name", "">>, <<"suffix", "Jr">>}

\* manage_authors_table, mode edit.
ManageAuthorsEdit ==
    \E last_name \in ColumnSet(Session, "authors", "last_name") :
      \E author_select \in DOMAIN prompt_for_author(Session, last_name),
         in \in EditAuthorInputs :
        LET author_id == prompt_for_author(Session, last_name)[author_select]
        IN  Command("edit_author", "authors", author_id, 0,
                    edit_author(Session, author_id, in[1], in[2]))

\* manage_authors_table, mode delete.
ManageAuthorsDelete ==
    \E last_name \in ColumnSet(Session, "authors", "last_name") :
      \E author_select \in DOMAIN prompt_for_author(Session, last_name) :
        LET author_id == prompt_for_author(Session, last_name)[author_select]
        IN  Command("delete_author", "authors", author_id, 0,
                    delete_author(Session, author_id))

\* manage_books_table, mode add, for a title not in the table.
ManageBooksAdd ==
    \E title \in Titles, in \in BookInputs(Session) :
        /\ DOMAIN prompt_for_title(Session, title) = {}
        /\ Command("add_book", "books", 0,
                   add_book(Session, title, in).id,
                   add_book(Session, title, in).md)

EditBookInputs(md) ==
    {[col_select |-> "Title", title |-> t] : t \in {"Emma"}}
    \cup UNION {
            {[col_select |-> "Author", name |-> n, author_select |-> a] :
                a \in AuthorOptions(md, n)} :
            n \in {x \in AuthorNames : x.last_name = "Herbert"}}
    \cup {[col_select |-> "Pages", pages |-> p] : p \in PageLengths}
    \cup {[col_select |-> "Rating", rating |-> r] : r \in RatingInputs}
    \cup {[col_select |-> "Genre", genre_select |-> g, new_genre |-> "Novel"] :
            g \in GenreOptions(md)}

\* manage_books_table, mode edit (and mode add for an existing title).
ManageBooksEdit ==
    \E title \in ColumnSet(Session, "books", "title") :
      \E in \in EditBookInputs(Session) :
        LET book_id == prompt_for_title(Session, title)[title]
        IN  Command("edit_book", "books", book_id, 0,
                    edit_book(Session, book_id, in))

\* manage_books_table, mode delete.
ManageBooksDelete ==
    \E title \in ColumnSet(Session, "books", "title") :
        LET book_id == prompt_for_title(Session, title)[title]
        IN  Command("delete_book", "books", book_id, 0,
                    delete_book(Session, book_id))

\* manage_genres_table, mode add.
ManageGenresAdd ==
    \E genre_name \in GenreNames :
        /\ DOMAIN prompt_for_genre(Session, genre_name) = {}
        /\ Command("add_genre", "genres", 0,
                   add_genre(Session, genre_name).id,
                   add_genre(Session, genre_name).md)

\* manage_genres_table, mode edit.
ManageGenresEdit ==
    \E genre_name \in ColumnSet(Session, "genres", "name"),
       new_name \in {"Novel"} :
        LET genre_id == prompt_for_genre(Session, genre_name)[genre_name]
        IN  Command("edit_genre", "genres", genre_id, 0,
                    edit_genre(Session, new_name, genre_id))

\* manage_genres_table, mode delete.
ManageGenresDelete ==
    \E genre_name \in ColumnSet(Session, "genres", "name") :
        LET genre_id == prompt_for_genre(Session, genre_name)[genre_name]
        IN  Command("delete_genre", "genres", genre_id, 0,
                    delete_genre(Session, genre_id))

\* select_book as run by manage_reading_table: an existing title, or a new
\* book typed with the first answers of BookInputs.
SelectBookInputs(md) ==
    {[title |-> t, title_select |-> t, book |-> <<>>] :
        t \in ColumnSet(md, "books", "title")}
    \cup
    {[title |-> t, title_select |-> "New Book", book |-> b] :
        t \in Titles,
        b \in {x \in BookInputs(md) : /\ x.author_select = "New Author"
                                      /\ x.new_genre = "Novel"}}

\* The dates and the rating typed for a new reading entry.
ReadingInputs ==
    {[start |-> NaN, finish |-> NaN, rating |-> NaN],
     [start |-> 2, finish |-> 5, rating |-> 4]}

\* manage_reading_table, mode add.
ManageReadingAdd ==
    \E sel \in SelectBookInputs(Session), in \in ReadingInputs :
        LET b == select_book(Session, sel.title, sel.title_select, sel.book)
            r == add_reading_entry(b.md, b.id, in.start, in.finish, in.rating)
        IN  Command("add_reading", "reading", b.id, r.id, r.md)

EditReadingInputs(md) ==
    {[prop_select |-> "Title", title |-> s.title,
      title_select |-> s.title_select, book |-> s.book] :
        s \in SelectBookInputs(md)}
    \cup {[prop_select |-> "Start", date |-> d] : d \in DateInputs \ {NaN}}
    \cup {[prop_select |-> "Finish", date |-> d] : d \in DateInputs}
    \cup {[prop_select |-> "Rating", rating |-> r] : r \in RatingInputs}

\* manage_reading_table, mode edit, for a book that has reading entries.
ManageReadingEdit ==
    \E title \in ColumnSet(Session, "books", "title") :
      LET book_id == prompt_for_title(Session, title)[title]
          id_list == get_reading_entries(Session, book_id)
      IN  \E edit_id \in Range(id_list), in \in EditReadingInputs(Session) :
            Command("edit_reading", "reading", edit_id, 0,
                    edit_reading_entry(Session, edit_id, in))

\* manage_reading_table, mode delete.
ManageReadingDelete ==
    \E title \in ColumnSet(Session, "books", "title") :
      LET book_id == prompt_for_title(Session, title)[title]
          id_list == get_reading_entries(Session, book_id)
      IN  \E edit_id \in Range(id_list) :
            Command("delete_reading", "reading", edit_id, 0,
                    delete_reading_entry(Session, edit_id))

\* Ratings that do not come from prompt_for_rating.
UncheckedRatings == {7}

\* The dicts given to a direct add_entry; foreign keys exist at the call.
EntryInputs(md, table) ==
    CASE table = "books" ->
            {[title |-> t, book_length |-> p] : t \in {"Emma"}, p \in PageLengths}
      [] table = "authors" -> {[last_name |-> "Herbert"]}
      [] table = "genres" -> {[name |-> g] : g \in {"Novel"}}
      [] table = "series" -> {[series_name |-> n] : n \in SeriesNames}
      [] table = "reading" ->
            {[book_id |-> b] : b \in ColumnSet(md, "books", "id")}
      [] table = "books_authors" ->
            {[book_id |-> b, author_id |-> a] :
                b \in ColumnSet(md, "books", "id"),
                a \in ColumnSet(md, "authors", "id")}
      [] table = "books_genres" ->
            {[book_id |-> b, genre_id |-> g] :
                b \in ColumnSet(md, "books", "id"),
                g \in ColumnSet(md, "genres", "id")}
      [] table = "books_series" ->
            {[book_id |-> b, series_id |-> s, series_order |-> 1] :
                b \in ColumnSet(md, "books", "id"),
                s \in ColumnSet(md, "series", "id")}

\* add_entry called directly on a table with a surrogate key.
AddEntry ==
    \E table \in IdTables :
      \E entry_details \in EntryInputs(Session, table) :
        Command("add_entry", table, entry_details,
                add_entry_id(Session, table),
                add_entry(Session, table, entry_details))

\* add_entry called directly on an association table.
AddAssociation ==
    \E table \in csv_list \ IdTables :
      \E entry_details \in EntryInputs(Session, table) :
        Command("add_entry", table, entry_details, 0,
                add_entry(Session, table, entry_details))

\* delete_entry called directly, by id, on a table with a surrogate key.
DeleteEntry ==
    \E table \in IdTables :
      \E id_value \in ColumnSet(Session, table, "id") :
        Command("delete_entry", table, id_value, 0,
                delete_entry(Session, table, "id", id_value))

\* delete_entry called directly with an id that no row of the table has.
DeleteEntryNoMatch ==
    \E table \in IdTables :
        Command("delete_entry", table, generate_id(Session, table), 0,
                delete_entry(Session, table, "id",
                             generate_id(Session, table)))

\* add_entry called directly with a rating that no prompt has checked.
AddEntryUnchecked ==
    \E table \in {"books", "reading"}, r \in UncheckedRatings :
      \E entry_details \in EntryInputs(Session, table) :
        LET rated == [c \in DOMAIN entry_details \cup {"rating"} |->
                        IF c = "rating" THEN r ELSE entry_details[c]]
        IN  Command("add_entry", table, rated, add_entry_id(Session, table),
                    add_entry(Session, table, rated))

\* The calls of a direct edit_entry: a rating by reading id, an author of
\* a book by book_id; the matched value is in the table or in no row.
EditInputs(md) ==
    {[table |-> "reading", id_column |-> "id", id_value |-> i,
      new_column |-> "rating", new_val |-> r] :
        i \in ColumnSet(md, "reading", "id") \cup {generate_id(md, "reading")},
        r \in UncheckedRatings}
    \cup
    {[table |-> "books_authors", id_column |-> "book_id", id_value |-> b,
      new_column |-> "author_id", new_val |-> a] :
        b \in ColumnSet(md, "books", "id"),
        a \in ColumnSet(md, "authors", "id")}

\* edit_entry called directly.
EditEntry ==
    \E c \in EditInputs(Session) :
        Command("edit_entry", c.table, c, 0,
                edit_entry(Session, c.table, c.id_column, c.id_value,
                           c.new_column, c.new_val))

\* The files once the first k saves of a run are complete.
RECURSIVE FilesAfter(_, _, _)
FilesAfter(files, log, k) ==
    IF k = 0 THEN files
    ELSE [FilesAfter(files, log, k - 1) EXCEPT ![log[k].table] = log[k].rows]

\* A run towards the CSVDataModel md that is interrupted (KeyboardInterrupt,
\* kill) after k complete saves: before the next to_csv begins, or inside
\* it, when the file has been opened for writing (and so emptied) and n of
\* its lines are written.  Nothing stays in memory.
Interrupted(op, table, arg, md) ==
    /\ steps < MaxSteps
    /\ \E k \in 0..(Len(md["saves"]) - 1) :
          \E n \in {NaN} \cup 0..(Len(md["saves"][k + 1].rows) - 1) :
            LET done == FilesAfter(csv_files, md["saves"], k)
                next == md["saves"][k + 1]
            IN  /\ csv_files' =
                      IF n = NaN THEN done
                      ELSE [done EXCEPT ![next.table] = SubSeq(next.rows, 1, n)]
                /\ saves' =
                      SubSeq(md["saves"], 1, IF n = NaN THEN k ELSE k + 1)
                /\ last' = Ran(op, table, arg, 0, FALSE, TRUE, k, n)
    /\ model_data' = Tables(load_model(csv_files'))
    /\ in_memory' = EmptyModel
    /\ prev_data' = model_data
    /\ before' = last
    /\ steps' = steps + 1

\* manage_books_table, mode add, interrupted.
InterruptedBooksAdd ==
    \E title \in Titles, in \in BookInputs(Session) :
        /\ DOMAIN prompt_for_title(Session, title) = {}
        /\ Interrupted("add_book", "books", 0,
                       add_book(Session, title, in).md)

\* manage_books_table, mode delete, interrupted.
InterruptedBooksDelete ==
    \E title \in ColumnSet(Session, "books", "title") :
        LET book_id == prompt_for_title(Session, title)[title]
        IN  Interrupted("delete_book", "books", book_id,
                        delete_book(Session, book_id))

\* The workflows of manage_csv.main and add_entry on association tables.
NextManage ==
    \/ ManageAuthorsAdd
    \/ ManageAuthorsEdit
    \/ ManageAuthorsDelete
    \/ ManageBooksAdd
    \/ ManageBooksEdit
    \/ ManageBooksDelete
    \/ ManageGenresAdd
    \/ ManageGenresEdit
    \/ ManageGenresDelete
    \/ ManageReadingAdd
    \/ ManageReadingEdit
    \/ ManageReadingDelete
    \/ AddAssociation

\* The workflows and the direct calls of add_entry and delete_entry on
\* the rows of the tables.
Next ==
    \/ NextManage
    \/ AddEntry
    \/ DeleteEntry

\* The direct calls of the data layer, with any argument.
NextEntry ==
    \/ AddEntry
    \/ AddAssociation
    \/ AddEntryUnchecked
    \/ EditEntry
    \/ DeleteEntry
    \/ DeleteEntryNoMatch

Spec == Init /\ [][Next]_vars

SpecManage == Init /\ [][NextManage]_vars

SpecEntry == Init /\ [][NextEntry]_vars

\* Adding and deleting books, with runs that are interrupted.
NextInterrupt ==
    \/ ManageBooksAdd
    \/ ManageBooksDelete
    \/ InterruptedBooksAdd
    \/ InterruptedBooksDelete

SpecInterrupt == Init /\ [][NextInterrupt]_vars

(***************************************************************************)
(* Views: view.view_module and the filter helpers of view.py, which call   *)
(* generate_main_books / generate_main_reading with what was chosen.       *)
(***************************************************************************)
\* A library of five books: a book with two authors, a book with two
\* genres, page lengths around 100 and 300 and a missing one, readings that
\* finish on the same day, with and without dates and ratings.
LibraryModel ==
    [EmptyModel EXCEPT
        !["books"] = <<BookRow(1, "Dune", 100, 4), BookRow(2, "Emma", 300, NaN),
                       BookRow(3, "Ubik", 301, 2),
                       BookRow(4, "Solaris", NaN, NaN),
                       BookRow(5, "Persuasion", 99, 5)>>,
        !["authors"] = <<AuthorRow(1, "Frank", "Herbert"),
                         AuthorRow(2, "Jane", "Austen"),
                         AuthorRow(3, "", "Lem")>>,
        !["genres"] = <<[id |-> 1, name |-> "SciFi"],
                        [id |-> 2, name |-> "Novel"]>>,
        !["reading"] = <<ReadingRow(1, 1, 6, 9, 3), ReadingRow(2, 1, 2, 9, 4),
                         ReadingRow(3, 2, 1, 5, NaN),
                         ReadingRow(4, 3, 2, NaN, NaN),
                         ReadingRow(5, 2, NaN, 9, 5)>>,
        !["books_authors"] = <<[book_id |-> 1, author_id |-> 1],
                               [book_id |-> 1, author_id |-> 2],
                               [book_id |-> 2, author_id |-> 2],
                               [book_id |-> 3, author_id |-> 1],
                               [book_id |-> 4, author_id |-> 3],
                               [book_id |-> 5, author_id |-> 2]>>,
        !["books_genres"] = <<[book_id |-> 1, genre_id |-> 1],
                              [book_id |-> 2, genre_id |-> 2],
                              [book_id |-> 2, genre_id |-> 1],
                              [book_id |-> 3, genre_id |-> 1],
                              [book_id |-> 4, genre_id |-> 1],
                              [book_id |-> 5, genre_id |-> 2]>>]

ViewModels == InitialModels \cup {LibraryModel}

InitView ==
    /\ \E m \in ViewModels :
          csv_files = [t \in csv_list |-> to_csv_rows(m[t], t)]
    /\ model_data = Tables(load_model(csv_files))
    /\ in_memory = model_data
    /\ saves = <<>>
    /\ prev_data = model_data
    /\ last = NoOp
    /\ before = NoOp
    /\ steps = 0

\* filter_function() without arguments.
NoFilter ==
    [filter |-> "None", id_list |-> <<>>, comp_type |-> 0, thresholds |-> <<>>]

\* view.options_filter: id_list is the id the lookup gives for the option
\* chosen from its keys.
OptionFilters(column, opts_dict) ==
    {[filter |-> column, id_list |-> <<opts_dict[selection]>>,
      comp_type |-> 0, thresholds |-> <<>>] : selection \in DOMAIN opts_dict}

\* view.numeric_filter and view.date_filter: the comparison type and the
\* thresholds typed for it (prompt_for_pos_int, prompt_for_date).
ThresholdFilter(column, comp_type, thresholds) ==
    [filter |-> column, id_list |-> <<>>, comp_type |-> comp_type,
     thresholds |-> thresholds]

BooksFilters(md) ==
    {NoFilter}
    \cup OptionFilters("Author", get_authors_dict(md, ""))
    \cup OptionFilters("Genre", get_genres_dict(md, ""))
    \cup OptionFilters("Title", get_books_dict(md, ""))
    \cup {ThresholdFilter("Pages", 3, <<100, 300>>),
          ThresholdFilter("Pages", 3, <<300, 100>>),
          ThresholdFilter("Pages", 1, <<100>>),
          ThresholdFilter("Pages", 2, <<300>>),
          ThresholdFilter("Pages", 4, <<>>),
          ThresholdFilter("Rating", 3, <<2, 4>>),
          ThresholdFilter("Times Read", 3, <<1, 2>>)}

ReadingFilters(md) ==
    {NoFilter}
    \cup OptionFilters("Author", get_authors_dict(md, ""))
    \cup OptionFilters("Title", get_books_dict(md, ""))
    \cup {ThresholdFilter("Start", 1, <<5>>),
          ThresholdFilter("Finish", 2, <<5>>),
          ThresholdFilter("Finish", 3, <<5, 9>>),
          ThresholdFilter("Finish", 4, <<9>>),
          ThresholdFilter("Finish", 5, <<>>),
          ThresholdFilter("Read Time", 3, <<3, 4>>),
          ThresholdFilter("Rating", 4, <<>>)}

\* view books: the books view, filtered or not.
ViewBooks ==
    \E kwargs \in BooksFilters(Session) :
        \E out \in {view_books(Session, kwargs)} :
            Command("view_books", "books", kwargs, out.view, out.md)

\* view reading: the reading view, filtered or not.
ViewReading ==
    \E kwargs \in ReadingFilters(Session) :
        \E out \in {view_reading(Session, kwargs)} :
            Command("view_reading", "reading", kwargs, out.view, out.md)

NextView ==
    \/ ViewBooks
    \/ ViewReading

\* The view commands on a loaded dataset.
SpecView == InitView /\ [][NextView]_vars

(***************************************************************************)
(* The authors workflows with every combination of typed name components.  *)
(***************************************************************************)
\* What add_author reads: the last name given to it and the three input()
\* answers, each empty or not.
TypedNames ==
    {[first_name |-> f, middle_name |-> m, last_name |-> "LeGuin",
      suffix |-> x] : f \in {"", "Ursula"}, m \in {"", "K"}, x \in {"", "Jr"}}

\* manage_authors_table, mode add; last.arg is the typed name.
ManageAuthorsAddTyped ==
    \E name \in TypedNames, in_list \in BOOLEAN :
        /\ DOMAIN prompt_for_author(Session, name.last_name) = {}
              \/ ~in_list
        /\ Command("add_author", "authors", name,
                   add_author(Session, name).id,
                   add_author(Session, name).md)

\* edit_author: any of the four properties, and an input() answer that is
\* empty or not.
EditNameInputs ==
    {<<c, v>> : c \in {"first_name", "middle_name", "last_name", "suffix"},
                v \in {"", "Ann"}}

\* manage_authors_table, mode edit; last.arg is the edited id, the column
\* and the new value.
ManageAuthorsEditTyped ==
    \E last_name \in ColumnSet(Session, "authors", "last_name") :
      \E author_select \in DOMAIN prompt_for_author(Session, last_name),
         in \in EditNameInputs :
        LET author_id == prompt_for_author(Session, last_name)[author_select]
        IN  Command("edit_author", "authors",
                    [id |-> author_id, column |-> in[1], new_value |-> in[2]],
                    0, edit_author(Session, author_id, in[1], in[2]))

NextAuthors ==
    \/ ManageAuthorsAddTyped
    \/ ManageAuthorsEditTyped

\* The authors commands on a loaded dataset.
SpecAuthors == Init /\ [][NextAuthors]_vars

(***************************************************************************)
(* Commands interrupted at a prompt.                                       *)
(***************************************************************************)
\* A run ended by the KeyboardInterrupt or EOFError that input() raises at
\* a prompt, the CSVDataModel being md at that prompt: the saves made before
\* the prompt are complete, cli_entry_point prints "No changes have been
\* saved!" and the process ends.  Nothing stays in memory.
InterruptedAtPrompt(op, table, arg, md) ==
    /\ steps < MaxSteps
    /\ csv_files' = md["csv"]
    /\ model_data' = Tables(load_model(md["csv"]))
    /\ in_memory' = EmptyModel
    /\ saves' = md["saves"]
    /\ prev_data' = model_data
    /\ last' = Ran(op, table, arg, 0, FALSE, TRUE, Len(md["saves"]), NaN)
    /\ before' = last
    /\ steps' = steps + 1

\* manage_books_table, mode add, interrupted at a prompt of add_book: at
\* the prompts of select_author (nothing is saved yet), or at those that
\* follow it (page length, rating, genre choice, name of the new genre).
\* After select_genre there is no prompt left.
PromptBooksAdd ==
    \E title \in Titles, in \in BookInputs(Session), author_done \in BOOLEAN :
        /\ DOMAIN prompt_for_title(Session, title) = {}
        /\ InterruptedAtPrompt("add_book", "books", 0,
              IF author_done
              THEN select_author(Session, in.name, in.author_select).md
              ELSE Session)

\* manage_reading_table, mode add, interrupted at the date or rating
\* prompts of add_reading_entry, after select_book.
PromptReadingAdd ==
    \E sel \in SelectBookInputs(Session) :
        InterruptedAtPrompt("add_reading", "reading", 0,
            select_book(Session, sel.title, sel.title_select, sel.book).md)

NextPrompt ==
    \/ ManageBooksAdd
    \/ PromptBooksAdd
    \/ PromptReadingAdd

\* Adding books, and add commands interrupted at a prompt.
SpecPrompt == Init /\ [][NextPrompt]_vars

(***************************************************************************)
(* Deleting and adding books on datasets that use the series tables.       *)
(***************************************************************************)
\* DuneModel with the book placed in its series: the books_series file has
\* a row (series management is not implemented, the row comes with the
\* data directory or from add_entry("books_series", ...)).
SeriesModel ==
    [DuneModel EXCEPT
        !["books_series"] =
            <<[book_id |-> 1, series_id |-> 1, series_order |-> 1]>>]

InitSeries ==
    /\ \E m \in InitialModels \cup {SeriesModel} :
          csv_files = [t \in csv_list |-> to_csv_rows(m[t], t)]
    /\ model_data = Tables(load_model(csv_files))
    /\ in_memory = model_data
    /\ saves = <<>>
    /\ prev_data = model_data
    /\ last = NoOp
    /\ before = NoOp
    /\ steps = 0

NextBooks ==
    \/ ManageBooksAdd
    \/ ManageBooksDelete
    \/ AddAssociation

\* manage books, modes add and delete, and add_entry on association tables.
SpecBooks == InitSeries /\ [][NextBooks]_vars

(***************************************************************************)
(* Properties                                                              *)
(***************************************************************************)
Ids(md, table) == ColumnSet(md, table, "id")

\* The commands that add a row to last.table and return its id.
AddOps == {"add_entry", "add_author", "add_book", "add_genre", "add_reading"}

\* The commands that delete the row last.arg of last.table.
DeleteOps ==
    {"delete_entry", "delete_author", "delete_book", "delete_genre",
     "delete_reading"}

\* The rows of a table whose column differs from a value, in order.
Without(md, table, column, value) ==
    SelectSeq(md[table], LAMBDA r : r[column] # value)

\* C1: in every table with a surrogate key the ids are pairwise distinct.
C1_IdsDistinct ==
    \A t \in IdTables :
        \A i, j \in 1..Len(model_data[t]) :
            i # j => model_data[t][i].id # model_data[t][j].id

\* C1 witness: an add that filled a gap below the largest id of its table.
C1_Witness ==
    /\ last.op \in AddOps
    /\ Ids(prev_data, last.table) # {}
    /\ last.ret < Max(Ids(prev_data, last.table))
    /\ Len(model_data[last.table]) = Len(prev_data[last.table]) + 1

\* C2 (as claimed): delete_book of B removes from books_authors,
\* books_genres, books_series and reading exactly the rows with book_id = B.
C2_CascadeComplete ==
    last.op = "delete_book" =>
        \A t \in {"books_authors", "books_genres", "books_series", "reading"} :
            model_data[t] = Without(prev_data, t, "book_id", last.arg)

ForeignKeysResolve(md) ==
    /\ \A t \in {"books_authors", "books_genres", "books_series", "reading"} :
          ColumnSet(md, t, "book_id") \subseteq Ids(md, "books")
    /\ ColumnSet(md, "books_authors", "author_id") \subseteq Ids(md, "authors")
    /\ ColumnSet(md, "books_genres", "genre_id") \subseteq Ids(md, "genres")

\* C3 (as claimed): after any sequence of completed workflows every book_id,
\* author_id and genre_id of the association tables and of reading refers
\* to an existing row.
C3_ForeignKeysResolve == ForeignKeysResolve(model_data)

\* The smallest positive integer that is not in a set of ids.
SmallestUnused(id_set) ==
    CHOOSE n \in 1..(Cardinality(id_set) + 1) :
        /\ n \notin id_set
        /\ \A k \in 1..(n - 1) : k \in id_set

MaxOrZero(S) == IF S = {} THEN 0 ELSE Max(S)

DeleteThenAdd ==
    /\ before.op \in DeleteOps
    /\ last.op \in AddOps
    /\ last.table = before.table

\* C5: an add that follows the deletion of row N of the same table gets an
\* id of at most the largest id + 1, and gets N when N is the smallest
\* positive integer not in the table after the deletion.
C5_IdRecycled ==
    DeleteThenAdd =>
        LET ids == Ids(prev_data, last.table)
        IN  /\ last.ret <= MaxOrZero(ids) + 1
            /\ before.arg = SmallestUnused(ids) => last.ret = before.arg

\* C5 witness: the id of a deleted row given again while a larger id exists.
C5_Witness ==
    /\ DeleteThenAdd
    /\ last.ret = before.arg
    /\ last.ret < MaxOrZero(Ids(prev_data, last.table))

\* C6: delete_author of A removes the authors row A and the books_authors
\* rows of A, delete_genre of G the genres row G and the books_genres rows
\* of G; every other row and table is unchanged.
C6_DeleteAuthorGenreFrame ==
    /\ last.op = "delete_author" =>
          /\ model_data["authors"] = Without(prev_data, "authors", "id", last.arg)
          /\ model_data["books_authors"] =
                Without(prev_data, "books_authors", "author_id", last.arg)
          /\ \A t \in csv_list \ {"authors", "books_authors"} :
                model_data[t] = prev_data[t]
    /\ last.op = "delete_genre" =>
          /\ model_data["genres"] = Without(prev_data, "genres", "id", last.arg)
          /\ model_data["books_genres"] =
                Without(prev_data, "books_genres", "genre_id", last.arg)
          /\ \A t \in csv_list \ {"genres", "books_genres"} :
                model_data[t] = prev_data[t]

\* C6 witness: an author of a book with two authors was deleted; the row of
\* the other author is still there.
C6_Witness ==
    /\ last.op = "delete_author"
    /\ last.arg \in ColumnSet(prev_data, "books_authors", "author_id")
    /\ Len(model_data["books_authors"]) > 0
    /\ Len(model_data["books_authors"]) < Len(prev_data["books_authors"])

\* C7 (as claimed): the books view has exactly one row for every row of the
\* books table, in the order of the table, whatever its authors and genres.
C7_BooksViewComplete ==
    LET view == generate_main_books(model_data)
    IN  [i \in 1..Len(view) |-> view[i].ID]
            = [i \in 1..Len(model_data["books"]) |-> model_data["books"][i].id]

\* The reading rows whose book exists.
ReadingOfExistingBooks(md) ==
    SelectSeq(md["reading"], LAMBDA r : r.book_id \in Ids(md, "books"))

\* C8 (as claimed): the reading view has exactly one row for every reading
\* row whose book exists, with the title of that book.
C8_ReadingViewComplete ==
    LET view == generate_main_reading(model_data)
        expected == ReadingOfExistingBooks(model_data)
    IN  /\ Len(view) = Len(expected)
        /\ \A i \in 1..Len(expected) :
              \E j \in 1..Len(view) :
                  /\ view[j].ID = expected[i].id
                  /\ \E b \in Range(model_data["books"]) :
                        b.id = expected[i].book_id /\ b.title = view[j].Title

\* The positions of the reading rows of a book that carry a rating.
RatedReadings(md, book_id) ==
    {i \in 1..Len(md["reading"]) :
        /\ md["reading"][i].book_id = book_id
        /\ md["reading"][i].rating # NaN}

RECURSIVE RatingTotal(_, _)
RatingTotal(md, positions) ==
    IF positions = {} THEN 0
    ELSE LET i == CHOOSE x \in positions : TRUE
         IN  md["reading"][i].rating + RatingTotal(md, positions \ {i})

BookOf(md, book_id) == CHOOSE b \in Range(md["books"]) : b.id = book_id

\* C9: the rating of a row of the books view is the mean of the ratings of
\* the book's reading rows that have one; without any, the rating of the
\* books row; without that, NaN.
C9_RatingFallback ==
    LET view == generate_main_books(model_data)
    IN  \A i \in 1..Len(view) :
            LET rated == RatedReadings(model_data, view[i].ID)
                manual == BookOf(model_data, view[i].ID).rating
            IN  IF rated # {}
                THEN /\ ~FloatIsNaN(view[i].Rating)
                     /\ view[i].Rating.num * Cardinality(rated)
                            = RatingTotal(model_data, rated) * view[i].Rating.den
                ELSE IF manual # NaN
                THEN view[i].Rating = [num |-> manual, den |-> 1]
                ELSE FloatIsNaN(view[i].Rating)

\* C9 witness: after a command, a book read without any rating shows the
\* rating of its books row, and a book with rated readings shows their mean.
C9_Witness ==
    LET view == generate_main_books(model_data)
    IN  /\ last.op \in {"add_reading", "edit_reading"}
        /\ \E i \in 1..Len(view) :
              /\ view[i].ID \in ColumnSet(model_data, "reading", "book_id")
              /\ RatedReadings(model_data, view[i].ID) = {}
              /\ view[i].Rating = [num |-> 4, den |-> 1]
        /\ \E i \in 1..Len(view) :
              /\ Cardinality(RatedReadings(model_data, view[i].ID)) >= 1
              /\ BookOf(model_data, view[i].ID).rating = NaN

\* num/den rounded to one decimal, as a fraction of 10.
RoundOneDecimal(f) ==
    [num |-> (20 * f.num + f.den) \div (2 * f.den), den |-> 10]

\* C10 (as claimed): the rating shown for a book with rated readings is
\* their mean rounded to one decimal.
C10_RatingRounded ==
    LET view == generate_main_books(model_data)
    IN  \A i \in 1..Len(view) :
            RatedReadings(model_data, view[i].ID) # {} =>
                FloatEq(view[i].Rating, RoundOneDecimal(view[i].Rating))

\* The positions of the reading rows of a book that have a finish date.
FinishedReadings(md, book_id) ==
    {i \in 1..Len(md["reading"]) :
        /\ md["reading"][i].book_id = book_id
        /\ md["reading"][i].finish_date # NaN}

\* C11: for every row of the books view, Times Read is the number of
\* reading rows of the book with a finish date, and 0 for a book that has
\* no reading row.
C11_TimesRead ==
    LET view == generate_main_books(model_data)
    IN  \A i \in 1..Len(view) :
            /\ view[i].TimesRead
                  = Cardinality(FinishedReadings(model_data, view[i].ID))
            /\ view[i].ID \notin ColumnSet(model_data, "reading", "book_id")
                  => view[i].TimesRead = 0

\* C11 witness: after a reading command, a book read once among several
\* reading rows, and a book without any reading row.
C11_Witness ==
    LET view == generate_main_books(model_data)
    IN  /\ last.op \in {"add_reading", "edit_reading", "delete_reading"}
        /\ \E i \in 1..Len(view) :
              /\ view[i].TimesRead = 1
              /\ Len(get_reading_entries(model_data, view[i].ID)) > 1
        /\ \E i \in 1..Len(view) :
              view[i].ID \notin ColumnSet(model_data, "reading", "book_id")

\* The positions of the to_csv calls of the last command on a table.
SavesOf(table) == {i \in 1..Len(saves) : saves[i].table = table}

\* The rows of an association table that carry a book id.
RowsOfBook(md, table, book_id) ==
    {i \in 1..Len(md[table]) : md[table][i].book_id = book_id}

C13_EveryBookHasAuthor ==
    Ids(model_data, "books")
        \subseteq ColumnSet(model_data, "books_authors", "book_id")

\* The files that to_csv writes for tables.
FilesOf(md) == [t \in csv_list |-> to_csv_rows(md[t], t)]

\* A direct edit_entry whose matchColumn == matchValue selects no row.
EditNoMatch ==
    /\ last.op = "edit_entry"
    /\ Matches(prev_data, last.table, last.arg.id_column, last.arg.id_value)
          = {}

\* C14: edit_entry without a matching row ends by an error, with every
\* table in memory and every file as before the call.
C14_EditNoMatchFails ==
    EditNoMatch =>
        /\ last.raised
        /\ in_memory = prev_data
        /\ csv_files = FilesOf(prev_data)
        /\ saves = <<>>

\* C14 witness: an edit_entry on a table with rows, none of which matches.
C14_Witness ==
    /\ EditNoMatch
    /\ last.raised
    /\ prev_data[last.table] # <<>>

\* A direct delete_entry whose id is the id of no row.
DeleteNoMatch ==
    /\ last.op = "delete_entry"
    /\ last.arg \notin Ids(prev_data, last.table)

\* C15 (as claimed): delete_entry without a matching row reports an error
\* and leaves the table unchanged.
C15_DeleteNoMatchReported ==
    DeleteNoMatch =>
        /\ last.raised
        /\ in_memory[last.table] = prev_data[last.table]

\* C15 (amended): delete_entry without a matching row returns without any
\* error; it rewrites the file of the table with the same lines and leaves
\* every table unchanged.
C15_DeleteNoMatchSilent ==
    DeleteNoMatch =>
        /\ ~last.raised
        /\ in_memory = prev_data
        /\ csv_files = FilesOf(prev_data)
        /\ saves = <<[table |-> last.table,
                      rows |-> to_csv_rows(prev_data[last.table], last.table)]>>

\* C15 witness: a delete_entry on a table with rows, none of which has the
\* id, that returned normally.
C15_Witness ==
    /\ DeleteNoMatch
    /\ ~last.raised
    /\ prev_data[last.table] # <<>>

\* C16 (as claimed): every rating stored in books and reading is absent or
\* an integer of 1..5.
C16_StoredRatingsInRange ==
    \A t \in {"books", "reading"} :
        \A i \in 1..Len(model_data[t]) :
            \/ isnan(model_data[t][i].rating)
            \/ model_data[t][i].rating \in 1..5

\* C16 (amended): add_entry and edit_entry do not check the rating: the
\* rating they are given is stored as given, without any error (the range
\* 1..5 is checked by prompt_for_rating, before the call).
C16_RatingStoredAsGiven ==
    /\ (last.op = "add_entry" /\ "rating" \in DOMAIN last.arg) =>
          /\ ~last.raised
          /\ Len(model_data[last.table]) = Len(prev_data[last.table]) + 1
          /\ model_data[last.table][Len(model_data[last.table])].rating
                = last.arg.rating
    /\ (last.op = "edit_entry" /\ ~EditNoMatch
            /\ last.arg.new_column = "rating") =>
          /\ ~last.raised
          /\ \E i \in 1..Len(model_data[last.table]) :
                /\ model_data[last.table][i][last.arg.id_column]
                      = last.arg.id_value
                /\ model_data[last.table][i].rating = last.arg.new_val

\* C16 witness: a rating outside 1..5 given to add_entry is in the books
\* or reading table.
C16_Witness ==
    /\ last.op = "add_entry"
    /\ "rating" \in DOMAIN last.arg
    /\ last.arg.rating \notin 1..5
    /\ \E i \in 1..Len(model_data[last.table]) :
          /\ model_data[last.table][i].id = last.ret
          /\ model_data[last.table][i].rating = last.arg.rating

\* The rows of the edited table in which edit_entry found a match.
EditMatches ==
    Matches(prev_data, last.table, last.arg.id_column, last.arg.id_value)

\* C17 (as claimed): edit_entry overwrites targetColumn in every row where
\* matchColumn == matchValue and changes nothing else.
C17_EditEveryMatch ==
    (last.op = "edit_entry" /\ ~EditNoMatch) =>
        /\ model_data[last.table] =
              [i \in 1..Len(prev_data[last.table]) |->
                  IF i \in EditMatches
                  THEN [prev_data[last.table][i]
                            EXCEPT ![last.arg.new_column] = last.arg.new_val]
                  ELSE prev_data[last.table][i]]
        /\ \A t \in csv_list \ {last.table} : model_data[t] = prev_data[t]

\* C17 (amended): edit_entry overwrites targetColumn in the first row
\* where matchColumn == matchValue, and changes no other column, no other
\* row (the other matching rows included) and no other table.
C17_EditFirstMatch ==
    (last.op = "edit_entry" /\ ~EditNoMatch) =>
        /\ model_data[last.table] =
              [i \in 1..Len(prev_data[last.table]) |->
                  IF i = Min(EditMatches)
                  THEN [prev_data[last.table][i]
                            EXCEPT ![last.arg.new_column] = last.arg.new_val]
                  ELSE prev_data[last.table][i]]
        /\ \A t \in csv_list \ {last.table} : model_data[t] = prev_data[t]

\* C17 witness: an edit_entry that matched several rows; one of them does
\* not carry the new value.
C17_Witness ==
    /\ last.op = "edit_entry"
    /\ Cardinality(EditMatches) > 1
    /\ \E i \in EditMatches :
          model_data[last.table][i][last.arg.new_column] # last.arg.new_val

\* The tables that load_model reads from the files.
Persisted == Tables(load_model(csv_files))

\* The tables on which the last command called to_csv.
SavedTables == {saves[i].table : i \in 1..Len(saves)}

C19_SaveAllOrNothing ==
    last.interrupted =>
        \A t \in csv_list :
            \/ csv_files[t] = to_csv_rows(prev_data[t], t)
            \/ \E i \in SavesOf(t) : csv_files[t] = saves[i].rows

\* The tables with a book_id column that refers to books.
BookTables == {"books_authors", "books_genres", "reading"}

\* delete_book of a book with association or reading rows, interrupted
\* after its first save and before the second.
DeleteBookCutAfterFirstSave ==
    /\ last.op = "delete_book"
    /\ last.interrupted
    /\ last.saved = 1
    /\ last.written = NaN
    /\ \E t \in BookTables : last.arg \in ColumnSet(prev_data, t, "book_id")

\* C20: delete_book is not atomic across tables: interrupted between its
\* first and its second save, it leaves in the files an association or
\* reading row whose book_id is the id of the book, which is no longer in
\* the books file.
C20_DeleteBookNotAtomic ==
    DeleteBookCutAfterFirstSave =>
        /\ last.arg \notin Ids(Persisted, "books")
        /\ \E t \in BookTables : last.arg \in ColumnSet(Persisted, t, "book_id")

\* C20 witness: such an interruption, with a reading row and a
\* books_authors row of the deleted book in the files.
C20_Witness ==
    /\ DeleteBookCutAfterFirstSave
    /\ last.arg \notin Ids(Persisted, "books")
    /\ last.arg \in ColumnSet(Persisted, "reading", "book_id")
    /\ last.arg \in ColumnSet(Persisted, "books_authors", "book_id")

ViewOps == {"view_books", "view_reading"}

IdSetOf(md, table, column, entity, book_id) ==
    {md[table][i][column] :
        i \in {j \in 1..Len(md[table]) :
                 /\ md[table][j].book_id = book_id
                 /\ md[table][j][column] \in Ids(md, entity)}}

\* The book of a reading entry.
BookOfReading(md, id) ==
    (CHOOSE r \in Range(md["reading"]) : r.id = id).book_id

NumericColumns == {"Pages", "Rating", "Times Read", "Read Time"}

\* lower <= v <= upper for the value v of a numeric column of a view row:
\* an integer, absent when NaN, or for the Rating of the books view the
\* exact fraction num/den, absent when NaN.
InRange(row, column, lower, upper) ==
    IF column = "Rating" /\ "TimesRead" \in DOMAIN row
    THEN /\ row.Rating.den # 0
         /\ lower * row.Rating.den <= row.Rating.num
         /\ row.Rating.num <= upper * row.Rating.den
    ELSE /\ row[ViewColumn(column)] # NaN
         /\ lower <= row[ViewColumn(column)]
         /\ row[ViewColumn(column)] <= upper

\* C23: the numeric 'between' filter keeps exactly the rows of the view
\* whose value v has lower <= v <= upper, both ends included; a row without
\* a value is left out, and the bounds are not re-ordered (lower > upper
\* keeps no row).
C23_NumericBetween ==
    (/\ last.op \in ViewOps
     /\ last.arg.filter \in NumericColumns
     /\ last.arg.comp_type = 3) =>
        LET lower == last.arg.thresholds[1]
            upper == last.arg.thresholds[2]
            view == IF last.op = "view_books" THEN generate_main_books(Session)
                    ELSE generate_main_reading(Session)
        IN  /\ last.ret = SelectSeq(view, LAMBDA row :
                              InRange(row, last.arg.filter, lower, upper))
            /\ lower > upper => last.ret = <<>>

\* C23 witness: books between 100 and 300 pages, with books of 100 and of
\* 300 pages kept and books of 99, of 301 and of unknown length left out.
C23_Witness ==
    /\ last.op = "view_books"
    /\ last.arg.filter = "Pages"
    /\ last.arg.comp_type = 3
    /\ last.arg.thresholds = <<100, 300>>
    /\ {last.ret[i].Pages : i \in 1..Len(last.ret)} = {100, 300}
    /\ {99, 301, NaN} \subseteq
          {generate_main_books(Session)[i].Pages :
              i \in 1..Len(generate_main_books(Session))}

\* C24: the reading view is in ascending order of finish date, the rows
\* without a finish date last, and rows with the same finish date are in
\* ascending order of start date.
C24_ReadingViewOrder ==
    last.op = "view_reading" =>
        \A i, j \in 1..Len(last.ret) :
            i < j =>
                /\ isnan(last.ret[i].Finish) => isnan(last.ret[j].Finish)
                /\ (~isnan(last.ret[i].Finish) /\ ~isnan(last.ret[j].Finish))
                      => last.ret[i].Finish <= last.ret[j].Finish
                /\ (/\ ~isnan(last.ret[i].Finish)
                    /\ last.ret[i].Finish = last.ret[j].Finish
                    /\ ~isnan(last.ret[i].Start)
                    /\ ~isnan(last.ret[j].Start))
                      => last.ret[i].Start <= last.ret[j].Start

\* The strings of a sequence joined by single spaces.
RECURSIVE JoinSpace(_)
JoinSpace(parts) ==
    IF Len(parts) = 0 THEN ""
    ELSE IF Len(parts) = 1 THEN parts[1]
    ELSE parts[1] \o " " \o JoinSpace(Tail(parts))

\* The name the formatting rule gives to an authors row.
FormattedName(row) ==
    LET parts == SelectSeq(<<row.first_name, row.middle_name, row.last_name>>,
                           LAMBDA x : x # "")
    IN  IF row.suffix # "" THEN JoinSpace(parts) \o ", " \o row.suffix
        ELSE JoinSpace(parts)

\* C25: whichever of first name, middle name, last name and suffix are
\* empty, the formatted name of an authors row is its non-empty components
\* among first, middle, last joined by single spaces (no leading, trailing
\* or double space), followed by ", " and the suffix when there is one.
C25_FormattedName ==
    \A i \in 1..Len(model_data["authors"]) :
        create_authors_formatted(Session, "")[i].Author
            = FormattedName(model_data["authors"][i])

\* C29: the authors row add_author creates holds the last name it was
\* given and each typed component in its own column (first_name,
\* middle_name, suffix), whichever of them are empty.
C29_AddAuthorStoresName ==
    (last.op = "add_author" /\ ~last.raised) =>
        \E i \in 1..Len(model_data["authors"]) :
            /\ model_data["authors"][i].id = last.ret
            /\ model_data["authors"][i].last_name = last.arg.last_name
            /\ model_data["authors"][i].first_name = last.arg.first_name
            /\ model_data["authors"][i].middle_name = last.arg.middle_name
            /\ model_data["authors"][i].suffix = last.arg.suffix

\* The commands that only add books, authors and genres.
AddLookupOps == {"load", "add_book", "add_author", "add_genre"}

\* C26: after add-book, add-author and add-genre commands the lookups
\* resolve every row: get_books_dict maps the title of each books row to
\* its id, get_genres_dict the name of each genres row to its id and
\* get_authors_dict the formatted name of each authors row to its id.
C26_LookupsResolve ==
    (last.op \in AddLookupOps /\ before.op \in AddLookupOps) =>
        /\ \A i \in 1..Len(model_data["books"]) :
              get_books_dict(Session, "")[model_data["books"][i].title]
                  = model_data["books"][i].id
        /\ \A i \in 1..Len(model_data["genres"]) :
              get_genres_dict(Session, "")[model_data["genres"][i].name]
                  = model_data["genres"][i].id
        /\ \A i \in 1..Len(model_data["authors"]) :
              get_authors_dict(Session, "")[
                  create_authors_formatted(Session, "")[i].Author]
                  = model_data["authors"][i].id

\* C28: after any run of the workflows, no two rows of the genres table
\* have the same name.
C28_GenreNamesDistinct ==
    \A i, j \in 1..Len(model_data["genres"]) :
        model_data["genres"][i].name = model_data["genres"][j].name => i = j

\* C27: a command interrupted at a prompt has saved nothing: the files
\* hold what they held when the command started.
C27_InterruptSavesNothing ==
    last.interrupted =>
        /\ saves = <<>>
        /\ model_data = prev_data
        /\ csv_files = [t \in csv_list |-> to_csv_rows(prev_data[t], t)]

\* C30: when a book is deleted and the next add_book receives its id, no
\* books_authors, books_genres, books_series or reading row of the deleted
\* book is left to be taken for a row of the new book.
C30_NoLeakToRecycledId ==
    (/\ before.op = "delete_book"
     /\ last.op = "add_book"
     /\ last.ret = before.arg) =>
        \A t \in {"books_authors", "books_genres", "books_series", "reading"} :
            RowsOfBook(prev_data, t, last.ret) = {}

====
